---- MODULE Spec2Model ----
(***************************************************************************)
(* A model of rv, a runtime dependency resolver for Go.                    *)
(*                                                                         *)
(* Revolve applies options (Supply, Provide, Invoke, WithDryRun,           *)
(* WithDuckTyping, WithLogger), then resolves: every input of a node is    *)
(* linked to the unique output of the provider pool that is assignable to  *)
(* it, providers are called before their consumers, and every invoke is    *)
(* called.  Nodes live in an arena (funcs) and refer to each other by      *)
(* index; 0 is the nil *function.                                          *)
(***************************************************************************)
EXTENDS Naturals, Sequences, FiniteSets, TLC

(***************************************************************************)
(* Bounds of the model.                                                    *)
(***************************************************************************)
\* the largest number of nodes (supplies, provides, invokes) one Revolve registers
MaxNodes == 3

(***************************************************************************)
(* Runtime types.  A type is a name; Kind and Methods are what reflection  *)
(* says about it.  Foo, Bar and FooBar stand for the pointer types of the  *)
(* tests, IFoo for the interface both *Foo and *FooBar implement, "func"   *)
(* for the type of an ordinary function and customLogger for a struct      *)
(* with a Printf method; "nil" is what reflect.ValueOf(nil), the zero      *)
(* Value, has in place of a type: its Kind is Invalid.                     *)
(***************************************************************************)
Kind(t) ==
    CASE t \in {"IFoo", "error", "Logger"} -> "interface"
      [] t \in {"LogFunc", "func"} -> "func"
      [] t = "customLogger" -> "struct"
      [] t = "nil" -> "invalid"
      [] OTHER -> "ptr"

Methods(t) ==
    CASE t = "Foo" -> {"foo"}
      [] t = "Bar" -> {"bar"}
      [] t = "FooBar" -> {"foo", "bar"}
      [] t = "IFoo" -> {"foo"}
      [] t = "error" -> {"Error"}
      [] t \in {"Logger", "LogFunc", "customLogger"} -> {"Printf"}
      [] OTHER -> {}

\* reflect.Type.AssignableTo: identical types, or t2 is an interface t1 implements
AssignableTo(t1, t2) ==
    \/ t1 = t2
    \/ Kind(t2) = "interface" /\ Methods(t2) \subseteq Methods(t1)

typesSimpleAssignable(t1, t2) == t1 = t2

\* mutant: the structural predicate asks for identical types
duckTypingAssignableExact(t1, t2) == t1 = t2

duckTypingAssignable(t1, t2) ==
    t1 = t2 \/ AssignableTo(t1, t2) \/ AssignableTo(t2, t1)

\* the typesAssignableFunc a predicate name stands for
Assignable(pred, t1, t2) ==
    IF pred = "duck" THEN duckTypingAssignable(t1, t2)
    ELSE typesSimpleAssignable(t1, t2)

isErrorType(t) == Kind(t) = "interface" /\ t = "error"

loggerType == "Logger"
logFuncType == "LogFunc"

(***************************************************************************)
(* Node states, errors and values.                                         *)
(***************************************************************************)
StateInitialized == 1
StateLinked == 2
StateCalled == 3

\* an error value: what it is, the node whose function returned it (0 for the
\* resolver's own errors), and whether it reaches the caller wrapped
\* (fmt.Errorf with %w) or as the value itself
Error(kind, fn, wrapped) == [kind |-> kind, fn |-> fn, wrapped |-> wrapped]
Nil == Error("nil", 0, FALSE)

\* a panic unwinds through Revolve to its caller: it is modelled as what Revolve
\* ends with, in place of a returned error
ZeroValuePanic == Error("panic: reflect: call of reflect.Value.Type on zero Value", 0, FALSE)
NilOptionPanic == Error("panic: nil pointer dereference", 0, FALSE)
IndexPanic == Error("panic: index out of range", 0, FALSE)
Panics == {ZeroValuePanic, NilOptionPanic, IndexPanic}
Sentinels == {"UnsupportedProvideTarget", "UnsupportedInvokeTarget",
              "UnsupportedLoggerProvider", "MultipleProvide",
              "CannotProvideValue", "CyclicProvideDetected", "InternalError"}

\* a reflect.Value: the value result idx of the function of node `by` returned
\* (by = 0: a value the caller of Revolve handed in), of type `what`
Value(by, idx, what) == [by |-> by, idx |-> idx, what |-> what]
ZeroValue == Value(0, 0, "zero")

Input(t) == [typ |-> t, provider |-> 0, outputIndex |-> 0]
Output(t, v) == [typ |-> t, value |-> v]

(***************************************************************************)
(* Targets the options are given: a value with a runtime type.  A function *)
(* has parameter types (ins) and result types (res).                       *)
(***************************************************************************)
Func(ins, res) == [typ |-> "func", ins |-> ins, res |-> res]
Val(t) == [typ |-> t, ins |-> <<>>, res |-> <<>>]
NoFunc == Val("invalid")

NilTarget == Val("nil")

SupplyValues == {Val("Foo"), Val("FooBar"), NilTarget}

ProvideTargets == {
    Func(<<>>, <<"Foo", "error">>),
    Func(<<"Foo">>, <<"Bar">>),
    Func(<<"Bar">>, <<"Foo">>),
    Func(<<>>, <<"Bar">>),
    Val("Foo"),
    NilTarget }

InvokeTargets == {
    Func(<<>>, <<>>),
    Func(<<"Foo">>, <<"error">>),
    Func(<<"Foo", "Bar">>, <<>>),
    Func(<<"IFoo">>, <<>>),
    Val("Foo"),
    NilTarget }

\* a log sink (its own parameters are never read), a logger, a logger
\* constructor with a dependency, a value that is neither a function nor a
\* logger, and nil
LoggerTargets == {
    Val("LogFunc"),
    Val("customLogger"),
    Func(<<"Foo">>, <<"Logger">>),
    Val("Foo"),
    NilTarget }

\* the function WithLogger builds to install the logger
SetLogger == Func(<<"Logger">>, <<>>)

(***************************************************************************)
(* Node builders (function.go).                                            *)
(***************************************************************************)
Node(target, inputs, outputs, state) ==
    [targetFunc |-> target, inputs |-> inputs, outputs |-> outputs, state |-> state]

Inputs(types) == [i \in 1..Len(types) |-> Input(types[i])]
Outputs(types) == [i \in 1..Len(types) |-> Output(types[i], ZeroValue)]

\* [fn, err]; val.Type() panics on the zero Value
parseSupply(value) ==
    IF Kind(value.typ) = "invalid"
    THEN [fn |-> Node(NoFunc, <<>>, <<>>, 0), err |-> ZeroValuePanic]
    ELSE [fn |-> Node(NoFunc, <<>>, <<Output(value.typ, Value(0, 1, value.typ))>>,
                      StateCalled),
          err |-> Nil]

\* [fn, err]; the error is formatted with value.Type(), which panics on the
\* zero Value
parseProvide(target) ==
    IF Kind(target.typ) = "invalid"
    THEN [fn |-> Node(NoFunc, <<>>, <<>>, 0), err |-> ZeroValuePanic]
    ELSE IF Kind(target.typ) # "func"
    THEN [fn |-> Node(NoFunc, <<>>, <<>>, 0),
          err |-> Error("UnsupportedProvideTarget", 0, TRUE)]
    ELSE [fn |-> Node(target, Inputs(target.ins), Outputs(target.res), StateInitialized),
          err |-> Nil]

parseInvoke(target) ==
    IF Kind(target.typ) = "invalid"
    THEN [fn |-> Node(NoFunc, <<>>, <<>>, 0), err |-> ZeroValuePanic]
    ELSE IF Kind(target.typ) # "func"
    THEN [fn |-> Node(NoFunc, <<>>, <<>>, 0),
          err |-> Error("UnsupportedInvokeTarget", 0, TRUE)]
    ELSE [fn |-> Node(target, Inputs(target.ins), <<>>, StateInitialized),
          err |-> Nil]

parseLoggerProvide(target) ==
    CASE Kind(target.typ) = "invalid" ->
            [fn |-> Node(NoFunc, <<>>, <<>>, 0), err |-> ZeroValuePanic]
      [] Kind(target.typ) = "func" /\ AssignableTo(target.typ, logFuncType) ->
            [fn |-> Node(NoFunc, <<>>,
                         <<Output(logFuncType, Value(0, 1, logFuncType))>>, StateCalled),
             err |-> Nil]
      [] ~(Kind(target.typ) = "func" /\ AssignableTo(target.typ, logFuncType))
         /\ AssignableTo(target.typ, loggerType) ->
            [fn |-> Node(NoFunc, <<>>,
                         <<Output(loggerType, Value(0, 1, target.typ))>>, StateCalled),
             err |-> Nil]
      [] Kind(target.typ) \notin {"func", "invalid"}
         /\ ~AssignableTo(target.typ, loggerType) ->
            [fn |-> Node(NoFunc, <<>>, <<>>, 0),
             err |-> Error("UnsupportedLoggerProvider", 0, TRUE)]
      [] OTHER ->
            [fn |-> Node(target, Inputs(target.ins), Outputs(target.res), StateInitialized),
             err |-> Nil]

(***************************************************************************)
(* The state of one Revolve.                                               *)
(***************************************************************************)
VARIABLES
    funcs,          \* the arena of nodes, in order of creation
    provides,       \* rv.provides: the provider pool, node indices
    invokes,        \* rv.invokes: the entry points, node indices
    loggerInvoker,  \* rv.loggerInvoker: the logger-installing invoke, or 0
    logger,         \* rv.logger: the value installed as logger
    dryRun,         \* rv.dryRun
    assignable,     \* rv.assignable: "simple" or "duck"
    pc,             \* where Revolve is: options, boot, logger, main, done
    roots,          \* the roots the running resolve has still to visit
    stack,          \* the chain of nodes the traversal is inside of
    worker,         \* the node whose function runs in a worker Call waits for, or 0
    sent,           \* <<values>> once that function returned and the worker sends
    orphans,        \* workers whose Call returned on cancellation: node -> status
    cancelled,      \* the context is done
    result,         \* the error Revolve returns
    trace,          \* history: the starts and ends of user functions, in order
    first,          \* history: <<the outcome of the Revolve before this one>>
    cancelledAt     \* history: how the context came to be done

vars == <<funcs, provides, invokes, loggerInvoker, logger, dryRun, assignable,
          pc, roots, stack, worker, sent, orphans, cancelled, result, trace, first,
          cancelledAt>>

\* the fields of the revolver the options set
rvVars == <<provides, invokes, loggerInvoker, dryRun, assignable>>
\* the context and the history of its cancellation
ctxVars == <<cancelled, cancelledAt>>
\* where Revolve is
runVars == <<pc, roots, stack, worker, sent, result>>

devNull == Value(0, 0, "devNull")

\* context.Canceled, returned as ctx.Err()
ctxErr == Error("Canceled", 0, FALSE)

\* how the context came to be done: it was when Revolve was entered, or it was
\* cancelled while the function of node `running` ran in its worker (0: none did)
CancelledAt(entry, running) == [entry |-> entry, running |-> running]

(***************************************************************************)
(* Linking (function.go).                                                  *)
(***************************************************************************)
Link(provider, outputIndex, err) ==
    [provider |-> provider, outputIndex |-> outputIndex, err |-> err]

\* the loop of linkInput over the outputs of one provide, from outIndex on
RECURSIVE ScanOutputs(_, _, _, _, _)
ScanOutputs(provide, outIndex, typ, pred, acc) ==
    IF acc.err # Nil \/ outIndex > Len(funcs[provide].outputs) THEN acc
    ELSE LET out == funcs[provide].outputs[outIndex] IN
         IF isErrorType(out.typ) THEN ScanOutputs(provide, outIndex + 1, typ, pred, acc)
         ELSE IF ~Assignable(pred, out.typ, typ)
         THEN ScanOutputs(provide, outIndex + 1, typ, pred, acc)
         ELSE IF acc.provider # 0
         THEN Link(0, 0, Error("MultipleProvide", 0, TRUE))
         ELSE ScanOutputs(provide, outIndex + 1, typ, pred, Link(provide, outIndex, Nil))

\* mutant: the node itself is not passed over
RECURSIVE ScanProvidesSelf(_, _, _, _, _, _)
ScanProvidesSelf(f, k, typ, pool, pred, acc) ==
    IF acc.err # Nil \/ k > Len(pool) THEN acc
    ELSE ScanProvidesSelf(f, k + 1, typ, pool, pred,
                          ScanOutputs(pool[k], 1, typ, pred, acc))

\* the loop of linkInput over the pool, from position k on
RECURSIVE ScanProvides(_, _, _, _, _, _)
ScanProvides(f, k, typ, pool, pred, acc) ==
    IF acc.err # Nil \/ k > Len(pool) THEN acc
    ELSE IF pool[k] = f THEN ScanProvides(f, k + 1, typ, pool, pred, acc)
    ELSE ScanProvides(f, k + 1, typ, pool, pred,
                      ScanOutputs(pool[k], 1, typ, pred, acc))

\* mutant: the first assignable output is bound, later ones are not looked at
RECURSIVE FirstOutput(_, _, _, _)
FirstOutput(provide, outIndex, typ, pred) ==
    IF outIndex > Len(funcs[provide].outputs) THEN 0
    ELSE IF ~isErrorType(funcs[provide].outputs[outIndex].typ)
            /\ Assignable(pred, funcs[provide].outputs[outIndex].typ, typ)
    THEN outIndex
    ELSE FirstOutput(provide, outIndex + 1, typ, pred)

RECURSIVE FirstProvide(_, _, _, _, _)
FirstProvide(f, k, typ, pool, pred) ==
    IF k > Len(pool) THEN Link(0, 0, Nil)
    ELSE IF pool[k] # f /\ FirstOutput(pool[k], 1, typ, pred) # 0
    THEN Link(pool[k], FirstOutput(pool[k], 1, typ, pred), Nil)
    ELSE FirstProvide(f, k + 1, typ, pool, pred)

linkInputFirst(f, typ, pool, pred) == FirstProvide(f, 1, typ, pool, pred)

linkInput(f, typ, pool, pred) == ScanProvides(f, 1, typ, pool, pred, Link(0, 0, Nil))

Linked(inputs, providers, state, err) ==
    [inputs |-> inputs, providers |-> providers, state |-> state, err |-> err]

\* the loop of LinkProvides over the inputs, from inIndex on
RECURSIVE LinkFrom(_, _, _, _, _, _)
LinkFrom(f, inIndex, inputs, providers, pool, pred) ==
    IF inIndex > Len(inputs) THEN Linked(inputs, providers, StateLinked, Nil)
    ELSE LET l == linkInput(f, inputs[inIndex].typ, pool, pred) IN
         IF l.err # Nil THEN Linked(inputs, <<>>, funcs[f].state, l.err)
         ELSE IF l.provider = 0
         THEN Linked(inputs, <<>>, funcs[f].state, Error("CannotProvideValue", 0, TRUE))
         ELSE LinkFrom(f, inIndex + 1,
                       [inputs EXCEPT ![inIndex].provider = l.provider,
                                      ![inIndex].outputIndex = l.outputIndex],
                       Append(providers, l.provider), pool, pred)

\* mutant: an input no provider was found for is left unbound
RECURSIVE LinkFromUnchecked(_, _, _, _, _, _)
LinkFromUnchecked(f, inIndex, inputs, providers, pool, pred) ==
    IF inIndex > Len(inputs) THEN Linked(inputs, providers, StateLinked, Nil)
    ELSE LET l == linkInput(f, inputs[inIndex].typ, pool, pred) IN
         IF l.err # Nil THEN Linked(inputs, <<>>, funcs[f].state, l.err)
         ELSE LinkFromUnchecked(f, inIndex + 1,
                  [inputs EXCEPT ![inIndex].provider = l.provider,
                                 ![inIndex].outputIndex = l.outputIndex],
                  IF l.provider = 0 THEN providers ELSE Append(providers, l.provider),
                  pool, pred)

LinkProvidesUnchecked(f, pool, pred) ==
    LinkFromUnchecked(f, 1, funcs[f].inputs, <<>>, pool, pred)

\* mutant: every node of the pool is handed back as a provider
LinkProvidesAll(f, pool, pred) ==
    LET l == LinkFrom(f, 1, funcs[f].inputs, <<>>, pool, pred)
    IN  IF l.err # Nil THEN l
        ELSE [l EXCEPT !.providers = SelectSeq(pool, LAMBDA p : p # f)]

\* mutant: the providers are handed back last input first
RECURSIVE Reversed(_)
Reversed(seq) ==
    IF seq = <<>> THEN <<>> ELSE Append(Reversed(Tail(seq)), Head(seq))

LinkProvidesReversed(f, pool, pred) ==
    LET l == LinkFrom(f, 1, funcs[f].inputs, <<>>, pool, pred)
    IN  [l EXCEPT !.providers = Reversed(l.providers)]

LinkProvides(f, pool, pred) == LinkFrom(f, 1, funcs[f].inputs, <<>>, pool, pred)

(***************************************************************************)
(* Calling (function.go).                                                  *)
(***************************************************************************)
Collected(args, err) == [args |-> args, err |-> err]

\* the loop of collectArgsValues over the inputs, from i on
RECURSIVE CollectFrom(_, _, _)
CollectFrom(f, i, args) ==
    IF i > Len(funcs[f].inputs) THEN Collected(args, Nil)
    ELSE LET in == funcs[f].inputs[i] IN
         IF funcs[in.provider].state < StateCalled
         THEN Collected(<<>>, Error("CyclicProvideDetected", 0, TRUE))
         ELSE IF Len(funcs[in.provider].outputs) < in.outputIndex
         THEN Collected(<<>>, Error("InternalError", 0, TRUE))
         ELSE CollectFrom(f, i + 1,
                          Append(args, funcs[in.provider].outputs[in.outputIndex].value))

\* mutant: the state of the providers is not looked at
collectArgsValuesUnordered(f) ==
    Collected([k \in 1..Len(funcs[f].inputs) |->
                  LET in == funcs[f].inputs[k]
                  IN  funcs[in.provider].outputs[in.outputIndex].value],
              Nil)

\* mutant: a provider that is Linked is taken for one that is Called
collectArgsValuesLinked(f) ==
    IF \E k \in 1..Len(funcs[f].inputs) :
           funcs[funcs[f].inputs[k].provider].state < StateLinked
    THEN Collected(<<>>, Error("CyclicProvideDetected", 0, TRUE))
    ELSE collectArgsValuesUnordered(f)

collectArgsValues(f) == CollectFrom(f, 1, <<>>)

\* what the function of node f may return: one value per result type, an
\* error-typed result being nil or an error of this function
NilValue == Value(0, 0, "nil")
RECURSIVE ResultsFrom(_, _)
ResultsFrom(f, i) ==
    LET res == funcs[f].targetFunc.res IN
    IF i > Len(res) THEN {<<>>}
    ELSE LET here == IF isErrorType(res[i])
                     THEN {NilValue, Value(f, i, "error")}
                     ELSE {Value(f, i, res[i])}
         IN  {<<v>> \o rest : v \in here, rest \in ResultsFrom(f, i + 1)}

Results(f) == ResultsFrom(f, 1)

Stored(outputs, err) == [outputs |-> outputs, err |-> err]

\* the loop of Call over the values its function returned, from i on
RECURSIVE StoreFrom(_, _, _, _)
StoreFrom(f, values, i, outputs) ==
    IF i > Len(values) THEN Stored(outputs, Nil)
    ELSE IF isErrorType(funcs[f].targetFunc.res[i])
    THEN IF values[i] # NilValue
         THEN Stored(outputs, Error("user", values[i].by, FALSE))
         ELSE StoreFrom(f, values, i + 1, outputs)
    ELSE IF i > Len(outputs)
    THEN Stored(outputs, IndexPanic)
    ELSE StoreFrom(f, values, i + 1, [outputs EXCEPT ![i].value = values[i]])

\* mutant: the error of the function is wrapped
StoreResultsWrapped(f, values) ==
    LET s == StoreFrom(f, values, 1, funcs[f].outputs)
    IN  IF s.err.kind = "user" THEN Stored(s.outputs, Error("user", s.err.fn, TRUE))
        ELSE s

\* mutant: the error of the function is dropped, the values after it stored
StoreResultsSwallowed(f, values) ==
    Stored([i \in 1..Len(funcs[f].outputs) |->
               IF isErrorType(funcs[f].outputs[i].typ) THEN funcs[f].outputs[i]
               ELSE [funcs[f].outputs[i] EXCEPT !.value = values[i]]],
           Nil)

\* mutant: the values are not stored
StoreResultsForgotten(f, values) ==
    Stored(funcs[f].outputs, StoreFrom(f, values, 1, funcs[f].outputs).err)

StoreResults(f, values) == StoreFrom(f, values, 1, funcs[f].outputs)

(***************************************************************************)
(* Revolve: option application (option.go).                                *)
(***************************************************************************)
Init ==
    /\ funcs = <<>>
    /\ provides = <<>>
    /\ invokes = <<>>
    /\ loggerInvoker = 0
    /\ logger = devNull
    /\ dryRun = FALSE
    /\ assignable = "simple"
    /\ pc = "options"
    /\ roots = <<>>
    /\ stack = <<>>
    /\ worker = 0
    /\ sent = <<>>
    /\ orphans = {}
    /\ cancelled \in BOOLEAN
    /\ cancelledAt = CancelledAt(cancelled, 0)
    /\ result = Nil
    /\ trace = <<>>
    /\ first = <<>>

\* Revolve returns err
Abort(err) ==
    /\ pc' = "done"
    /\ result' = err
    /\ roots' = <<>>
    /\ stack' = <<>>
    /\ worker' = 0
    /\ sent' = <<>>

NodeCount == Len(provides) + Len(invokes)

\* The code names a node by its pointer, held in rv.provides, in rv.invokes
\* or in rv.loggerInvoker.  Here the k-th provide is node k, the k-th invoke
\* registered node InvokeBase + k, and the logger-installing invoke node
\* LoggerInvokerNode.
InvokeBase == MaxNodes
LoggerInvokerNode == 2 * MaxNodes + 1
NextProvide == Len(provides) + 1
NextInvoke == InvokeBase + Len(invokes) + 1

\* the nodes fs and the new node n
AddNode(fs, n, fn) == [x \in DOMAIN fs \cup {n} |-> IF x = n THEN fn ELSE fs[x]]

supplyOption(value) ==
    /\ pc = "options"
    /\ NodeCount < MaxNodes
    /\ LET p == parseSupply(value) IN
       IF p.err # Nil
       THEN /\ Abort(p.err)
            /\ UNCHANGED <<funcs, provides>>
       ELSE /\ funcs' = AddNode(funcs, NextProvide, p.fn)
            /\ provides' = Append(provides, NextProvide)
            /\ UNCHANGED runVars
    /\ UNCHANGED <<invokes, loggerInvoker, dryRun, assignable>>
    /\ UNCHANGED <<logger, orphans, ctxVars, trace, first>>

provideOption(target) ==
    /\ pc = "options"
    /\ NodeCount < MaxNodes
    /\ LET p == parseProvide(target) IN
       IF p.err # Nil
       THEN /\ Abort(p.err)
            /\ UNCHANGED <<funcs, provides>>
       ELSE /\ funcs' = AddNode(funcs, NextProvide, p.fn)
            /\ provides' = Append(provides, NextProvide)
            /\ UNCHANGED runVars
    /\ UNCHANGED <<invokes, loggerInvoker, dryRun, assignable>>
    /\ UNCHANGED <<logger, orphans, ctxVars, trace, first>>

\* mutant: the invoke is put in front of those registered before it
invokeOptionPrepend(target) ==
    /\ pc = "options"
    /\ NodeCount < MaxNodes
    /\ LET p == parseInvoke(target) IN
       IF p.err # Nil
       THEN /\ Abort(p.err)
            /\ UNCHANGED <<funcs, invokes>>
       ELSE /\ funcs' = AddNode(funcs, NextInvoke, p.fn)
            /\ invokes' = <<NextInvoke>> \o invokes
            /\ UNCHANGED runVars
    /\ UNCHANGED <<provides, loggerInvoker, dryRun, assignable>>
    /\ UNCHANGED <<logger, orphans, ctxVars, trace, first>>

invokeOption(target) ==
    /\ pc = "options"
    /\ NodeCount < MaxNodes
    /\ LET p == parseInvoke(target) IN
       IF p.err # Nil
       THEN /\ Abort(p.err)
            /\ UNCHANGED <<funcs, invokes>>
       ELSE /\ funcs' = AddNode(funcs, NextInvoke, p.fn)
            /\ invokes' = Append(invokes, NextInvoke)
            /\ UNCHANGED runVars
    /\ UNCHANGED <<provides, loggerInvoker, dryRun, assignable>>
    /\ UNCHANGED <<logger, orphans, ctxVars, trace, first>>

\* a nil Option among the options of Revolve: the loop of Revolve skips it
nilOption ==
    /\ pc = "options"
    /\ UNCHANGED vars

\* Options(..., nil, ...): the loop of optionGroup.apply calls apply on the nil
\* Option
optionGroupNil ==
    /\ pc = "options"
    /\ Abort(NilOptionPanic)
    /\ UNCHANGED <<funcs, rvVars, logger, orphans, ctxVars, trace, first>>

WithDuckTyping ==
    /\ pc = "options"
    /\ assignable' = "duck"
    /\ UNCHANGED <<provides, invokes, loggerInvoker, dryRun>>
    /\ UNCHANGED <<funcs, runVars, logger, orphans, ctxVars, trace, first>>

WithDryRun ==
    /\ pc = "options"
    /\ dryRun' = TRUE
    /\ UNCHANGED <<provides, invokes, loggerInvoker, assignable>>
    /\ UNCHANGED <<funcs, runVars, logger, orphans, ctxVars, trace, first>>

\* mutant: the logger-installing invoke is registered as one more invoke
WithLoggerAsInvoke(target) ==
    /\ pc = "options"
    /\ NodeCount < MaxNodes
    /\ LET p == parseLoggerProvide(target)
           invoke == parseInvoke(SetLogger)
       IN  IF p.err # Nil
           THEN /\ Abort(p.err)
                /\ UNCHANGED <<funcs, provides, invokes>>
           ELSE /\ funcs' = AddNode(AddNode(funcs, NextProvide, p.fn),
                                     NextInvoke, invoke.fn)
                /\ provides' = Append(provides, NextProvide)
                /\ invokes' = Append(invokes, NextInvoke)
                /\ UNCHANGED runVars
    /\ UNCHANGED <<loggerInvoker, dryRun, assignable>>
    /\ UNCHANGED <<logger, orphans, ctxVars, trace, first>>

WithLogger(target) ==
    /\ pc = "options"
    /\ NodeCount < MaxNodes
    /\ LET p == parseLoggerProvide(target)
           invoke == parseInvoke(SetLogger)
       IN  IF p.err # Nil
           THEN /\ Abort(p.err)
                /\ UNCHANGED <<funcs, provides, loggerInvoker>>
           ELSE /\ funcs' = AddNode(AddNode(funcs, NextProvide, p.fn),
                                     LoggerInvokerNode, invoke.fn)
                /\ provides' = Append(provides, NextProvide)
                /\ loggerInvoker' = LoggerInvokerNode
                /\ UNCHANGED runVars
    /\ UNCHANGED <<invokes, dryRun, assignable>>
    /\ UNCHANGED <<logger, orphans, ctxVars, trace, first>>

(***************************************************************************)
(* Revolve: the two resolves.  The logger bootstrap is a resolve rooted at *)
(* the logger-installing invoke, the main resolve one rooted at the        *)
(* invokes in order of registration.  A resolve walks depth first: a node  *)
(* is entered (cancellation is polled, an Initialized node is linked), its *)
(* providers are entered in input order, then the node is called.          *)
(***************************************************************************)
Resolving == pc \in {"logger", "main", "calling"}

\* the predicate the running resolve links with
Pred == IF pc = "logger" THEN "duck" ELSE assignable

Frame(f, pending) == [fn |-> f, pending |-> pending]
Top == stack[Len(stack)]
Pop == SubSeq(stack, 1, Len(stack) - 1)

\* the main resolve starts, after the poll of the context
StartMain ==
    IF cancelled
    THEN Abort(ctxErr)
    ELSE /\ pc' = "main"
         /\ roots' = invokes
         /\ UNCHANGED <<stack, worker, sent, result>>

\* all options are applied
EndOptions ==
    /\ pc = "options"
    /\ IF loggerInvoker # 0
       THEN /\ pc' = "logger"
            /\ roots' = <<loggerInvoker>>
            /\ UNCHANGED <<stack, worker, sent, result>>
       ELSE StartMain
    /\ UNCHANGED <<funcs, rvVars, logger, orphans, ctxVars, trace, first>>

\* the bootstrap resolve has returned nil
EndLogger ==
    /\ pc = "logger" /\ roots = <<>> /\ stack = <<>>
    /\ StartMain
    /\ UNCHANGED <<funcs, rvVars, logger, orphans, ctxVars, trace, first>>

\* the main resolve has returned nil
Return ==
    /\ pc = "main" /\ roots = <<>> /\ stack = <<>>
    /\ Abort(Nil)
    /\ UNCHANGED <<funcs, rvVars, logger, orphans, ctxVars, trace, first>>

\* mutant: Call does not look at the state
CallIsNoopNever(f) == FALSE

\* Call returns at once on a node that is Called
CallIsNoop(f) == funcs[f].state >= StateCalled

\* mutant: a node that is Called is linked again when it is entered
VisitRelinks(n, rest, todo) ==
    IF cancelled
    THEN /\ Abort(ctxErr)
         /\ UNCHANGED funcs
    ELSE IF funcs[n].state \in {StateInitialized, StateCalled}
    THEN LET l == LinkProvides(n, provides, Pred) IN
         /\ funcs' = [funcs EXCEPT ![n].inputs = l.inputs, ![n].state = l.state]
         /\ IF l.err # Nil
            THEN Abort(l.err)
            ELSE /\ stack' = Append(rest, Frame(n, l.providers))
                 /\ roots' = todo
                 /\ UNCHANGED <<pc, worker, sent, result>>
    ELSE /\ stack' = IF CallIsNoop(n) THEN rest ELSE Append(rest, Frame(n, <<>>))
         /\ roots' = todo
         /\ UNCHANGED <<funcs, pc, worker, sent, result>>

\* mutant: a node is entered without a look at the context
VisitUnpolled(n, rest, todo) ==
    IF funcs[n].state = StateInitialized
    THEN LET l == LinkProvides(n, provides, Pred) IN
         /\ funcs' = [funcs EXCEPT ![n].inputs = l.inputs, ![n].state = l.state]
         /\ IF l.err # Nil
            THEN Abort(l.err)
            ELSE /\ stack' = Append(rest, Frame(n, l.providers))
                 /\ roots' = todo
                 /\ UNCHANGED <<pc, worker, sent, result>>
    ELSE /\ stack' = IF CallIsNoop(n) THEN rest ELSE Append(rest, Frame(n, <<>>))
         /\ roots' = todo
         /\ UNCHANGED <<funcs, pc, worker, sent, result>>

\* the traversal enters node n, leaving rest (the stack) and todo (the roots)
Visit(n, rest, todo) ==
    IF cancelled
    THEN /\ Abort(ctxErr)
         /\ UNCHANGED funcs
    ELSE IF funcs[n].state = StateInitialized
    THEN LET l == LinkProvides(n, provides, Pred) IN
         /\ funcs' = [funcs EXCEPT ![n].inputs = l.inputs, ![n].state = l.state]
         /\ IF l.err # Nil
            THEN Abort(l.err)
            ELSE /\ stack' = Append(rest, Frame(n, l.providers))
                 /\ roots' = todo
                 /\ UNCHANGED <<pc, worker, sent, result>>
    ELSE /\ stack' = IF CallIsNoop(n) THEN rest ELSE Append(rest, Frame(n, <<>>))
         /\ roots' = todo
         /\ UNCHANGED <<funcs, pc, worker, sent, result>>

Enter ==
    /\ Resolving /\ worker = 0
    /\ \/ /\ stack = <<>> /\ roots # <<>>
          /\ Visit(Head(roots), stack, Tail(roots))
       \/ /\ stack # <<>> /\ Top.pending # <<>>
          /\ Visit(Head(Top.pending),
                   Append(Pop, Frame(Top.fn, Tail(Top.pending))), roots)
    /\ UNCHANGED <<rvVars, logger, orphans, ctxVars, trace, first>>

\* the deferred f.state = StateCalled of Call
MarkCalled(fs, f) == [fs EXCEPT ![f].state = StateCalled]

Event(ev, f, args) == [ev |-> ev, fn |-> f, args |-> args]

Prologue(step, args, err) == [step |-> step, args |-> args, err |-> err]

\* mutant: dry-run returns before the arguments are collected
CallPrologueDryFirst(f) ==
    IF CallIsNoop(f) THEN Prologue("noop", <<>>, Nil)
    ELSE IF dryRun THEN Prologue("dry", <<>>, Nil)
    ELSE LET c == collectArgsValues(f) IN
         IF c.err # Nil THEN Prologue("fail", <<>>, c.err)
         ELSE Prologue("go", c.args, Nil)

\* mutant: dry-run is not looked at
CallPrologueNoDry(f) ==
    IF CallIsNoop(f) THEN Prologue("noop", <<>>, Nil)
    ELSE LET c == collectArgsValues(f) IN
         IF c.err # Nil THEN Prologue("fail", <<>>, c.err)
         ELSE Prologue("go", c.args, Nil)

\* Call before its worker: what it does next, with which arguments or error
CallPrologue(f) ==
    IF CallIsNoop(f) THEN Prologue("noop", <<>>, Nil)
    ELSE LET c == collectArgsValues(f) IN
         IF c.err # Nil THEN Prologue("fail", <<>>, c.err)
         ELSE IF dryRun THEN Prologue("dry", c.args, Nil)
         ELSE Prologue("go", c.args, Nil)

\* Call up to the start of the worker
CallStart ==
    /\ Resolving /\ worker = 0
    /\ stack # <<>> /\ Top.pending = <<>>
    /\ LET f == Top.fn
           p == CallPrologue(f)
       IN  CASE p.step = "noop" ->
                /\ stack' = Pop
                /\ UNCHANGED <<funcs, pc, roots, worker, sent, result, trace>>
             [] p.step = "fail" ->
                /\ funcs' = MarkCalled(funcs, f)
                /\ Abort(p.err)
                /\ UNCHANGED trace
             [] p.step = "dry" ->
                /\ funcs' = MarkCalled(funcs, f)
                /\ stack' = Pop
                /\ UNCHANGED <<pc, roots, worker, sent, result, trace>>
             [] p.step = "go" ->
                /\ worker' = f
                /\ trace' = Append(trace, Event("start", f, p.args))
                /\ UNCHANGED <<funcs, pc, roots, stack, sent, result>>
    /\ UNCHANGED <<rvVars, logger, orphans, ctxVars, first>>

\* the function returns its values; the worker offers them on the channel
WorkerReturns ==
    /\ worker # 0 /\ sent = <<>>
    /\ \E values \in Results(worker) :
          /\ sent' = <<values>>
          /\ trace' = Append(trace, Event("end", worker, values))
    /\ logger' = IF worker = loggerInvoker THEN trace[Len(trace)].args[1] ELSE logger
    /\ UNCHANGED <<funcs, rvVars, pc, roots, stack, worker, result, orphans,
                   ctxVars, first>>

\* Call receives the values of its worker
CallReturn ==
    /\ worker # 0 /\ sent # <<>>
    /\ LET f == worker
           s == StoreResults(f, sent[1])
       IN  /\ funcs' = MarkCalled([funcs EXCEPT ![f].outputs = s.outputs], f)
           /\ IF s.err # Nil
              THEN Abort(s.err)
              ELSE /\ stack' = Pop
                   /\ worker' = 0
                   /\ sent' = <<>>
                   /\ UNCHANGED <<pc, roots, result>>
    /\ UNCHANGED <<rvVars, logger, orphans, ctxVars, trace, first>>

\* mutant: on cancellation Call waits for the values and stores them
CallCancelledWaits ==
    /\ worker # 0 /\ cancelled /\ sent # <<>>
    /\ funcs' = MarkCalled([funcs EXCEPT ![worker].outputs =
                                StoreResults(worker, sent[1]).outputs], worker)
    /\ orphans' = orphans \cup {[fn |-> worker, status |-> "blocked"]}
    /\ Abort(ctxErr)
    /\ UNCHANGED <<rvVars, logger, ctxVars, trace, first>>

\* the context is done and the select takes that case: Call returns the
\* context's error and leaves the worker, running or offering its values
CallCancelled ==
    /\ worker # 0 /\ cancelled
    /\ funcs' = MarkCalled(funcs, worker)
    /\ orphans' = orphans \cup
          {[fn |-> worker, status |-> IF sent = <<>> THEN "running" ELSE "blocked"]}
    /\ Abort(ctxErr)
    /\ UNCHANGED <<rvVars, logger, ctxVars, trace, first>>

\* mutant: a left worker stores the values its function returns
OrphanReturnsStores(o) ==
    /\ o \in orphans /\ o.status = "running"
    /\ \E values \in Results(o.fn) :
          /\ trace' = Append(trace, Event("end", o.fn, values))
          /\ funcs' = [funcs EXCEPT ![o.fn].outputs = StoreResults(o.fn, values).outputs]
    /\ orphans' = (orphans \ {o}) \cup {[o EXCEPT !.status = "blocked"]}
    /\ logger' = IF o.fn = loggerInvoker THEN trace[Len(trace)].args[1] ELSE logger
    /\ UNCHANGED <<rvVars, runVars, ctxVars, first>>

\* the function of a left worker returns; nobody receives its values
OrphanReturns(o) ==
    /\ o \in orphans /\ o.status = "running"
    /\ \E values \in Results(o.fn) :
          trace' = Append(trace, Event("end", o.fn, values))
    /\ orphans' = (orphans \ {o}) \cup {[o EXCEPT !.status = "blocked"]}
    /\ logger' = IF o.fn = loggerInvoker THEN trace[Len(trace)].args[1] ELSE logger
    /\ UNCHANGED <<funcs, rvVars, runVars, ctxVars, first>>

\* the context is cancelled, at any moment before Revolve returns
Cancel ==
    /\ pc # "done" /\ ~cancelled
    /\ cancelled' = TRUE
    /\ cancelledAt' = CancelledAt(FALSE, IF sent = <<>> THEN worker ELSE 0)
    /\ UNCHANGED <<funcs, rvVars, runVars, logger, orphans, trace, first>>

Next ==
    \/ \E v \in SupplyValues : supplyOption(v)
    \/ \E t \in ProvideTargets : provideOption(t)
    \/ \E t \in InvokeTargets : invokeOption(t)
    \/ \E t \in LoggerTargets : WithLogger(t)
    \/ nilOption
    \/ optionGroupNil
    \/ WithDuckTyping
    \/ WithDryRun
    \/ EndOptions
    \/ EndLogger
    \/ Return
    \/ Enter
    \/ CallStart
    \/ WorkerReturns
    \/ CallReturn
    \/ CallCancelled
    \/ \E o \in orphans : OrphanReturns(o)
    \/ Cancel

Spec == Init /\ [][Next]_vars

(***************************************************************************)
(* What the history says.                                                  *)
(***************************************************************************)
Nodes == DOMAIN funcs
Events == 1..Len(trace)

\* the positions of the trace at which the function of f was started / returned
Starts(f) == {i \in Events : trace[i].ev = "start" /\ trace[i].fn = f}
Ends(f) == {i \in Events : trace[i].ev = "end" /\ trace[i].fn = f}

HasFunc(f) == funcs[f].targetFunc # NoFunc

\* the providers the inputs of c are bound to
ProvidersOf(c) ==
    {funcs[c].inputs[k].provider : k \in 1..Len(funcs[c].inputs)} \ {0}

(***************************************************************************)
(* C1  Happens-before: whenever the function of a node C has been started, *)
(* every input of C is bound to a provider P that is in state Called, and  *)
(* a P that has a function returned from it before C was started.          *)
(***************************************************************************)
HappensBefore ==
    \A i \in Events :
        trace[i].ev = "start" =>
            \A k \in 1..Len(funcs[trace[i].fn].inputs) :
                LET P == funcs[trace[i].fn].inputs[k].provider IN
                /\ P # 0
                /\ funcs[P].state = StateCalled
                /\ HasFunc(P) => \E j \in Ends(P) : j < i

\* a consumer was started after the function of one of its providers returned
HappensBeforeWitness ==
    \E i \in Events :
        /\ trace[i].ev = "start"
        /\ \E P \in ProvidersOf(trace[i].fn) : HasFunc(P) /\ Ends(P) # {}

(***************************************************************************)
(* C2  At-most-once call: in one Revolve, bootstrap and main resolve       *)
(* together, the function of every node is started at most once.           *)
(***************************************************************************)
AtMostOnce == \A f \in Nodes : Cardinality(Starts(f)) <= 1

\* two consumers were started on the values of one provider called once
AtMostOnceWitness ==
    \E P \in Nodes, c1, c2 \in Nodes :
        /\ c1 # c2
        /\ HasFunc(P) /\ Cardinality(Starts(P)) = 1
        /\ P \in ProvidersOf(c1) /\ P \in ProvidersOf(c2)
        /\ Starts(c1) # {} /\ Starts(c2) # {}

(***************************************************************************)
(* The graph of links: an edge leads from a consumer to each provider its  *)
(* inputs are bound to.                                                    *)
(***************************************************************************)
\* the nodes of S and all nodes reachable from them
RECURSIVE Closure(_)
Closure(S) ==
    LET T == S \cup UNION {ProvidersOf(c) : c \in S}
    IN  IF T = S THEN S ELSE Closure(T)

OnCycle(p) == p \in Closure(ProvidersOf(p))

\* the roots of the two resolves: the invokes and the logger-installing invoke
Roots == {invokes[a] : a \in 1..Len(invokes)} \cup ({loggerInvoker} \ {0})

Demanded == Closure(Roots)

CycleReachable == \E p \in Demanded : OnCycle(p)

DependsOnCycle(i) == \E p \in Closure({i}) : OnCycle(p)

UserError(r) == r.kind = "user"

Preds == {"simple", "duck"}
\* the types of the inputs of f
InputTypesOf(f) == {funcs[f].inputs[k].typ : k \in 1..Len(funcs[f].inputs)}

\* the outputs of the pool that may be bound to an input of type typ of f
Candidates(f, typ, pred) ==
    {c \in {<<k, o>> : k \in 1..Len(provides), o \in 1..2} :
        /\ provides[c[1]] # f
        /\ c[2] <= Len(funcs[provides[c[1]]].outputs)
        /\ ~isErrorType(funcs[provides[c[1]]].outputs[c[2]].typ)
        /\ Assignable(pred, funcs[provides[c[1]]].outputs[c[2]].typ, typ)}

\* the inputs of f that are not bound to exactly one candidate
Unbindable(f, pred) ==
    {k \in 1..Len(funcs[f].inputs) :
        Cardinality(Candidates(f, funcs[f].inputs[k].typ, pred)) # 1}

Least(S) == CHOOSE k \in S : \A j \in S : k <= j

\* the options are being applied: the pool as built so far, before any link
PoolBuilt == pc = "options" /\ ~dryRun /\ assignable = "simple" /\ ~cancelled

(***************************************************************************)
(* C4  Uniqueness detection: for every pool the options can build, every   *)
(* node, input type and predicate, when two or more outputs of other nodes *)
(* of the pool, not of type error, are assignable to its type, linkInput   *)
(* fails with MultipleProvide, and so does LinkProvides when the first     *)
(* input it cannot bind is such an input; and no node is ever Linked or    *)
(* Called that has such an input under both predicates.  (Linking reads    *)
(* the pool and the signatures alone; every pool is met while the options  *)
(* are applied, what is linked stays linked until Revolve returns, and a   *)
(* Revolve whose context is done links no more than one that runs on.)     *)
(***************************************************************************)
UniquenessDetection ==
    /\ PoolBuilt =>
          \A f \in Nodes, pred \in Preds :
              /\ \A typ \in InputTypesOf(f) :
                    Cardinality(Candidates(f, typ, pred)) >= 2 =>
                        linkInput(f, typ, provides, pred) =
                            Link(0, 0, Error("MultipleProvide", 0, TRUE))
              /\ Unbindable(f, pred) # {} =>
                    LET k == Least(Unbindable(f, pred)) IN
                    Cardinality(Candidates(f, funcs[f].inputs[k].typ, pred)) >= 2 =>
                        LinkProvides(f, provides, pred).err.kind = "MultipleProvide"
    /\ \A f \in Nodes :
          pc = "done" /\ ~cancelled /\ funcs[f].state >= StateLinked =>
              \E pred \in Preds :
                  \A k \in 1..Len(funcs[f].inputs) :
                      Cardinality(Candidates(f, funcs[f].inputs[k].typ, pred)) < 2

\* under the structural predicate Revolve failed with MultipleProvide on an
\* interface input that two supplies of different types conform to
UniquenessDetectionWitness ==
    /\ pc = "done" /\ assignable = "duck"
    /\ result = Error("MultipleProvide", 0, TRUE)
    /\ \E f \in Roots :
          /\ funcs[f].state = StateInitialized
          /\ \E k \in 1..Len(funcs[f].inputs) :
                /\ funcs[f].inputs[k].typ = "IFoo"
                /\ Cardinality(Candidates(f, "IFoo", "duck")) >= 2
                /\ Candidates(f, "IFoo", "simple") = {}

(***************************************************************************)
(* C5  Completeness detection: for every pool the options can build, every *)
(* node and predicate, when no output of the pool may be bound to an input *)
(* type linkInput finds no provider, and when the first input LinkProvides *)
(* cannot bind is such an input it fails with CannotProvideValue; a        *)
(* LinkProvides that fails leaves the state of the node as it was, and no  *)
(* node is ever Linked or Called with an input bound to no provider.       *)
(***************************************************************************)
CompletenessDetection ==
    /\ PoolBuilt =>
          \A f \in Nodes, pred \in Preds :
              /\ \A typ \in InputTypesOf(f) :
                    Candidates(f, typ, pred) = {} =>
                        linkInput(f, typ, provides, pred) = Link(0, 0, Nil)
              /\ Unbindable(f, pred) # {} =>
                    LET k == Least(Unbindable(f, pred))
                        l == LinkProvides(f, provides, pred)
                    IN  /\ l.err # Nil
                        /\ l.state = funcs[f].state
                        /\ Candidates(f, funcs[f].inputs[k].typ, pred) = {} =>
                              l.err = Error("CannotProvideValue", 0, TRUE)
    /\ \A f \in Nodes :
          pc = "done" /\ ~cancelled /\ funcs[f].state >= StateLinked =>
              \A k \in 1..Len(funcs[f].inputs) :
                  /\ funcs[f].inputs[k].provider # 0
                  /\ \E pred \in Preds :
                        Candidates(f, funcs[f].inputs[k].typ, pred) # {}

\* Revolve failed with CannotProvideValue on a node it left Initialized
CompletenessDetectionWitness ==
    /\ pc = "done"
    /\ result = Error("CannotProvideValue", 0, TRUE)
    /\ \E f \in Demanded \cup Roots :
          /\ funcs[f].state = StateInitialized
          /\ Unbindable(f, assignable) # {}
          /\ Candidates(f, funcs[f].inputs[Least(Unbindable(f, assignable))].typ,
                        assignable) = {}

(***************************************************************************)
(* C6  Laziness: a node with a function that is not reachable, through the *)
(* links from inputs to providers, from an invoke or from the              *)
(* logger-installing invoke is never started and never marked Called.      *)
(***************************************************************************)
Laziness ==
    LET D == Demanded IN
    \A f \in Nodes :
        HasFunc(f) /\ (Starts(f) # {} \/ funcs[f].state = StateCalled) =>
            f \in D

\* Revolve returned nil after it ran an invoke and left a provide alone
LazinessWitness ==
    /\ pc = "done" /\ result = Nil /\ ~dryRun
    /\ \E i \in Roots : Starts(i) # {}
    /\ \E a \in 1..Len(provides) :
          /\ HasFunc(provides[a])
          /\ provides[a] \notin Demanded
          /\ Starts(provides[a]) = {}

(***************************************************************************)
(* User functions that returned an error.                                  *)
(***************************************************************************)
\* the values of trace event i hold a non-nil error
ErrorAt(i) ==
    /\ trace[i].ev = "end"
    /\ \E k \in 1..Len(trace[i].args) : trace[i].args[k].what = "error"

\* the error the function of node f returns, as a value of its own
ErrorOf(f) == Error("user", f, FALSE)

Failed(f) == \E i \in Ends(f) : ErrorAt(i)

FirstErrorAborts ==
    /\ [][(result # Nil \/ \E i \in Events : ErrorAt(i)) =>
              \A f \in Nodes : Starts(f)' = Starts(f)]_vars
    /\ [](\A i, j \in Events : ErrorAt(i) /\ i < j => trace[j].ev # "start")
    /\ [](\A c \in Nodes :
             (\E P \in ProvidersOf(c) : Failed(P)) => Starts(c) = {})
    /\ [](\A a, b \in 1..Len(invokes) :
             a < b /\ Failed(invokes[a]) => Starts(invokes[b]) = {})
    /\ [](result # Nil => pc = "done" /\ worker = 0)

\* an invoke returned an error, an invoke registered after it was not started
FirstErrorAbortsWitness ==
    /\ pc = "done"
    /\ \E a, b \in 1..Len(invokes) :
          /\ a < b
          /\ Failed(invokes[a]) /\ result = ErrorOf(invokes[a])
          /\ HasFunc(invokes[b]) /\ Starts(invokes[b]) = {}

(***************************************************************************)
(* C9  Success runs every entry point: whenever Revolve has returned nil   *)
(* and dry-run is off, the function of every registered invoke was started *)
(* once and has returned, and the argument it got for each input is the    *)
(* value stored in the output the input is linked to: the value the        *)
(* function of the provider returned there, or the value supplied.         *)
(***************************************************************************)
SuccessRunsAll ==
    pc = "done" /\ result = Nil /\ ~dryRun =>
        \A a \in 1..Len(invokes) :
            LET f == invokes[a] IN
            /\ Cardinality(Starts(f)) = 1
            /\ Cardinality(Ends(f)) = 1
            /\ \A i \in Starts(f) :
                  /\ Len(trace[i].args) = Len(funcs[f].inputs)
                  /\ \A k \in 1..Len(funcs[f].inputs) :
                        LET in == funcs[f].inputs[k]
                            out == funcs[in.provider].outputs[in.outputIndex]
                        IN  /\ trace[i].args[k] = out.value
                            /\ out.value # ZeroValue
                            /\ IF HasFunc(in.provider)
                               THEN \E j \in Ends(in.provider) :
                                       j < i /\ trace[j].args[in.outputIndex] = out.value
                               ELSE out.value = Value(0, 1, out.typ)

\* Revolve returned nil after two invokes ran, one of them on the value a
\* provide function returned
SuccessRunsAllWitness ==
    /\ pc = "done" /\ result = Nil /\ ~dryRun
    /\ Len(invokes) >= 2
    /\ \E a \in 1..Len(invokes) :
          \E P \in ProvidersOf(invokes[a]) : HasFunc(P) /\ Ends(P) # {}

(***************************************************************************)
(* Two Revolves on the same options, one with WithDryRun and one without,  *)
(* under a context that is never done.                                     *)
(***************************************************************************)
OptionErrors == {"UnsupportedProvideTarget", "UnsupportedInvokeTarget",
                 "UnsupportedLoggerProvider"}

\* node f as the options build it anew
Fresh(f) ==
    IF ~HasFunc(f) THEN funcs[f]
    ELSE Node(funcs[f].targetFunc,
              Inputs(funcs[f].targetFunc.ins),
              [i \in 1..Len(funcs[f].outputs) |->
                  Output(funcs[f].outputs[i].typ, ZeroValue)],
              StateInitialized)

Outcome(dry, err, started) == [dryRun |-> dry, result |-> err, started |-> started]

\* Revolve has returned; it is called again with the same options, WithDryRun
\* added or left out.  The options are applied as before: an option that
\* failed fails again, else the resolves start.
Rerun ==
    /\ pc = "done" /\ first = <<>>
    /\ first' = <<Outcome(dryRun, result, trace # <<>>)>>
    /\ dryRun' = ~dryRun
    /\ funcs' = [f \in Nodes |-> Fresh(f)]
    /\ logger' = devNull
    /\ trace' = <<>>
    /\ IF result.kind \in OptionErrors \/ result \in Panics
       THEN UNCHANGED runVars
       ELSE /\ pc' = IF loggerInvoker # 0 THEN "logger" ELSE "main"
            /\ roots' = IF loggerInvoker # 0 THEN <<loggerInvoker>> ELSE invokes
            /\ result' = Nil
            /\ UNCHANGED <<stack, worker, sent>>
    /\ UNCHANGED <<provides, invokes, loggerInvoker, assignable, orphans, ctxVars>>

NextDry ==
    \/ \E v \in SupplyValues : supplyOption(v)
    \/ \E t \in ProvideTargets : provideOption(t)
    \/ \E t \in InvokeTargets : invokeOption(t)
    \/ \E t \in LoggerTargets : WithLogger(t)
    \/ nilOption
    \/ optionGroupNil
    \/ WithDuckTyping
    \/ WithDryRun
    \/ EndOptions
    \/ EndLogger
    \/ Return
    \/ Enter
    \/ CallStart
    \/ WorkerReturns
    \/ CallReturn
    \/ Rerun

\* the context is not done, and never will be
InitDry == Init /\ ~cancelled

SpecDry == InitDry /\ [][NextDry]_vars

\* both Revolves have returned
BothDone == pc = "done" /\ first # <<>>

\* the outcome of the Revolve without, and of the one with, WithDryRun
Normal == IF dryRun THEN first[1] ELSE Outcome(dryRun, result, trace # <<>>)
Dry == IF dryRun THEN Outcome(dryRun, result, trace # <<>>) ELSE first[1]

\* the validation error sentinel of an error, or the absence of one
Validation(err) == IF err.kind \in Sentinels THEN err.kind ELSE "none"

DryRunRunsNothing ==
    /\ dryRun => trace = <<>> /\ worker = 0 /\ orphans = {} /\ logger = devNull
    /\ dryRun /\ pc = "done" =>
          \/ result = Nil
          \/ cancelled /\ result = ctxErr
          \/ result \in Panics \ {IndexPanic}
          \/ result.kind \in Sentinels \ {"InternalError"} /\ result.wrapped
    /\ dryRun /\ pc = "done" /\ result = Nil =>
          \A f \in Demanded :
              /\ funcs[f].state = StateCalled
              /\ \A k \in 1..Len(funcs[f].inputs) :
                    /\ funcs[f].inputs[k].provider # 0
                    /\ funcs[funcs[f].inputs[k].provider].state = StateCalled
              /\ collectArgsValues(f).err = Nil

\* a dry run returned nil on an invoke whose provider is a function that was
\* marked Called without being started
DryRunRunsNothingWitness ==
    /\ dryRun /\ pc = "done" /\ result = Nil /\ trace = <<>>
    /\ \E a \in 1..Len(invokes) :
          \E P \in ProvidersOf(invokes[a]) :
              HasFunc(P) /\ funcs[P].state = StateCalled

(***************************************************************************)
(* Cancellation.                                                           *)
(***************************************************************************)
\* the context was done when Revolve was entered
DoneAtEntry == cancelled /\ cancelledAt.entry

\* no node has been linked
NothingLinked ==
    \A f \in Nodes :
        /\ funcs[f].state # StateLinked
        /\ \A k \in 1..Len(funcs[f].inputs) : funcs[f].inputs[k].provider = 0

(***************************************************************************)
(* C12 as stated  Cancellation prompt: when the context is done as Revolve *)
(* is entered, no function is ever started, in the bootstrap resolve or    *)
(* after it, and Revolve returns the context's error.                      *)
(***************************************************************************)
CancellationPrompt ==
    DoneAtEntry =>
        /\ trace = <<>> /\ worker = 0
        /\ pc = "done" => result = ctxErr

(***************************************************************************)
(* C12 as amended  When the context is done as Revolve is entered, no      *)
(* function is ever started, in the bootstrap resolve or after it, no node *)
(* is linked and no logger installed; Revolve returns the context's error, *)
(* unless an option fails, whose error (or panic) ends Revolve before the  *)
(* context is looked at; the main resolve is never started.                *)
(***************************************************************************)
CancellationPromptAfterOptions ==
    DoneAtEntry =>
        /\ trace = <<>> /\ worker = 0 /\ orphans = {}
        /\ NothingLinked /\ logger = devNull
        /\ pc = "done" =>
              \/ result = ctxErr
              \/ result.kind \in OptionErrors /\ result.wrapped
              \/ result \in {ZeroValuePanic, NilOptionPanic}
        /\ pc # "main"

\* Revolve, entered with a done context, a logger constructor and an invoke,
\* returned the context's error from its bootstrap resolve
CancellationPromptAfterOptionsWitness ==
    /\ DoneAtEntry /\ pc = "done" /\ result = ctxErr
    /\ loggerInvoker # 0 /\ invokes # <<>>
    /\ \E k \in 1..Len(provides) :
          /\ HasFunc(provides[k])
          /\ \E o \in 1..Len(funcs[provides[k]].outputs) :
                funcs[provides[k]].outputs[o].typ = loggerType

\* the node whose function was running in its worker when the context was
\* cancelled, or 0
RunningAtCancel == IF cancelled THEN cancelledAt.running ELSE 0

\* the nodes whose Call returned on cancellation, leaving its worker
Left == {o.fn : o \in orphans}

\* nothing the function of f returned is stored in its outputs or was passed
\* to a function as an argument
Discarded(f) ==
    /\ \A k \in 1..Len(funcs[f].outputs) : funcs[f].outputs[k].value = ZeroValue
    /\ \A i \in Events :
          trace[i].ev = "start" =>
              \A k \in 1..Len(trace[i].args) : trace[i].args[k].by # f

InvokeNodes == {invokes[a] : a \in 1..Len(invokes)}

\* the nodes invoke g demands that no invoke registered before it, and not
\* the logger-installing invoke, demands
DemandedOnlyFrom(g) ==
    Closure({g}) \ Closure({h \in InvokeNodes : h < g} \cup ({loggerInvoker} \ {0}))

\* the function of f returned before trace event s
EndedBefore(f, s) == \E e \in Ends(f) : e < s

Above(i) == {stack[j].fn : j \in (i + 1)..Len(stack)}

\* the provider input k of node c is bound to
ProviderOf(c, k) == funcs[c].inputs[k].provider

InputValidation ==
    /\ [][\A t \in ProvideTargets :
              Kind(t.typ) # "func" /\ provideOption(t) =>
                  /\ pc' = "done"
                  /\ result' = Error("UnsupportedProvideTarget", 0, TRUE)
                  /\ trace' = <<>> /\ NothingLinked']_vars
    /\ [][\A t \in InvokeTargets :
              Kind(t.typ) # "func" /\ invokeOption(t) =>
                  /\ pc' = "done"
                  /\ result' = Error("UnsupportedInvokeTarget", 0, TRUE)
                  /\ trace' = <<>> /\ NothingLinked']_vars

(***************************************************************************)
(* C17  Null options: a step that applies a null option, be it one of the  *)
(* options of Revolve or a member of an Options group, changes nothing and *)
(* leaves Revolve applying its options; and once an option has returned an *)
(* error no further option is applied.                                     *)
(***************************************************************************)
NullOptions ==
    /\ [][nilOption \/ optionGroupNil =>
              UNCHANGED <<funcs, rvVars, pc, result>>]_vars
    /\ [][result # Nil => UNCHANGED <<rvVars, pc, result>>]_vars

(***************************************************************************)
(* C18  Supply never fails: every step that applies Supply to a value, the *)
(* null value included, leaves Revolve applying its options, with one more *)
(* node at the end of the pool, that has no function, no inputs, state     *)
(* Called and one output, holding the value with its runtime type.         *)
(***************************************************************************)
SupplyNeverFails ==
    [][\A v \in SupplyValues :
           supplyOption(v) =>
               /\ pc' = "options" /\ result' = Nil
               /\ Len(provides') = Len(provides) + 1
               /\ SubSeq(provides', 1, Len(provides)) = provides
               /\ \A f \in Nodes : funcs'[f] = funcs[f]
               /\ funcs'[provides'[Len(provides')]] =
                      Node(NoFunc, <<>>, <<Output(v.typ, Value(0, 1, v.typ))>>,
                           StateCalled)]_vars

(***************************************************************************)
(* The logger bootstrap.                                                   *)
(***************************************************************************)
\* the type of the output input k of node c is bound to
BoundType(c, k) ==
    funcs[ProviderOf(c, k)].outputs[funcs[c].inputs[k].outputIndex].typ

\* the outputs of the pool whose values Go assigns to a Logger
LoggerOutputs ==
    {c \in {<<k, o>> : k \in 1..Len(provides), o \in 1..2} :
        /\ c[2] <= Len(funcs[provides[c[1]]].outputs)
        /\ AssignableTo(funcs[provides[c[1]]].outputs[c[2]].typ, loggerType)}

(***************************************************************************)
(* C19  Logger bootstrap predicate: the input of the logger-installing     *)
(* invoke is only ever bound to an output of the pool of the main resolve, *)
(* of a type assignable to Logger, identical to it or not; when the pool   *)
(* holds exactly one such output the bootstrap never fails to link that    *)
(* input, with or without WithDuckTyping; and without WithDuckTyping every *)
(* input of an invoke of the main resolve is bound to an output of its own *)
(* type.                                                                   *)
(***************************************************************************)
LoggerBootstrapPredicate ==
    /\ loggerInvoker # 0 /\ funcs[loggerInvoker].state >= StateLinked =>
          /\ \E k \in 1..Len(provides) : provides[k] = ProviderOf(loggerInvoker, 1)
          /\ AssignableTo(BoundType(loggerInvoker, 1), loggerType)
    /\ loggerInvoker # 0 /\ pc = "done"
          /\ funcs[loggerInvoker].state = StateInitialized
          /\ Cardinality(LoggerOutputs) = 1 =>
              result.kind \notin {"CannotProvideValue", "MultipleProvide"}
    /\ assignable = "simple" =>
          \A g \in InvokeNodes :
              funcs[g].state >= StateLinked =>
                  \A k \in 1..Len(funcs[g].inputs) :
                      BoundType(g, k) = funcs[g].inputs[k].typ

\* without WithDuckTyping a log sink was installed as the logger, and the
\* main resolve then refused to bind an interface input to a value that
\* implements it
LoggerBootstrapPredicateWitness ==
    /\ pc = "done" /\ assignable = "simple" /\ loggerInvoker # 0
    /\ funcs[loggerInvoker].state = StateCalled
    /\ BoundType(loggerInvoker, 1) = logFuncType
    /\ logger # devNull
    /\ result = Error("CannotProvideValue", 0, TRUE)
    /\ \E g \in InvokeNodes :
          /\ funcs[g].state = StateInitialized
          /\ Candidates(g, "IFoo", "duck") # {}
          /\ Candidates(g, "IFoo", "simple") = {}
          /\ "IFoo" \in InputTypesOf(g)

\* the nodes built from the function that installs the logger
Installers == {f \in Nodes : funcs[f].targetFunc = SetLogger}

\* the invokes the user registered
UserInvokes == InvokeNodes \ Installers

\* the positions of the trace at which an invoke of the user was started
UserStarts ==
    {i \in Events : trace[i].ev = "start" /\ trace[i].fn \in UserInvokes}

\* the main resolve has not reached any invoke of the user
UserUntouched ==
    /\ UserStarts = {}
    /\ \A g \in UserInvokes : funcs[g].state = StateInitialized

(***************************************************************************)
(* C20  Logger bootstrap ordering: when WithLogger was given, every start  *)
(* of an invoke of the user comes after the logger-installing invoke has   *)
(* returned, and the logger is installed by then; while the bootstrap runs *)
(* no invoke of the user is linked or called; the main resolve starts only *)
(* when the logger-installing invoke is Called; and when Revolve ends      *)
(* during the bootstrap, no invoke of the user was or will be called.      *)
(***************************************************************************)
LoggerBootstrapOrdering ==
    /\ [](Installers # {} =>
            /\ \A i \in UserStarts : \E l \in Installers : EndedBefore(l, i)
            /\ UserStarts # {} => logger # devNull
            /\ pc = "logger" => UserUntouched)
    /\ [][pc = "logger" /\ pc' = "main" =>
              /\ funcs[loggerInvoker].state = StateCalled
              /\ dryRun \/ logger # devNull]_vars
    /\ [][pc = "logger" /\ pc' = "done" => result' # Nil /\ UserUntouched']_vars
    /\ [][pc = "done" => UNCHANGED <<pc, result>> /\ UserStarts' = UserStarts]_vars

\* a logger constructor with a dependency was called, its logger installed,
\* and then an invoke of the user was called
LoggerBootstrapOrderingWitness ==
    /\ pc = "done" /\ result = Nil /\ loggerInvoker # 0
    /\ UserStarts # {}
    /\ logger # devNull
    /\ funcs[ProviderOf(loggerInvoker, 1)].inputs # <<>>
    /\ \A i \in UserStarts :
          \E e \in Ends(ProviderOf(loggerInvoker, 1)) : e < i

(***************************************************************************)
(* WithLogger.                                                             *)
(***************************************************************************)
\* the node a step has appended to the pool
Added == funcs'[provides'[Len(provides')]]

\* a step has appended one node to the pool and Revolve goes on applying
PoolGrows ==
    /\ pc' = "options" /\ result' = Nil
    /\ Len(provides') = Len(provides) + 1
    /\ SubSeq(provides', 1, Len(provides)) = provides

(***************************************************************************)
(* C21  WithLogger target classification: every step that applies          *)
(* WithLogger to a log sink appends a node in state Called with one output *)
(* of type LogFunc; to a target that implements Logger, a node in state    *)
(* Called with one output of type Logger that holds the target; to any     *)
(* other function, a node in state Initialized with that function; and to  *)
(* any other target that is not a function, it ends Revolve with           *)
(* UnsupportedLoggerProvider and leaves the pool as it was.                *)
(***************************************************************************)
LoggerClassification ==
    [][\A t \in LoggerTargets :
           WithLogger(t) =>
               IF Kind(t.typ) = "func" /\ AssignableTo(t.typ, logFuncType)
               THEN /\ PoolGrows
                    /\ Added = Node(NoFunc, <<>>,
                                    <<Output(logFuncType, Value(0, 1, logFuncType))>>,
                                    StateCalled)
               ELSE IF AssignableTo(t.typ, loggerType)
               THEN /\ PoolGrows
                    /\ Added = Node(NoFunc, <<>>,
                                    <<Output(loggerType, Value(0, 1, t.typ))>>,
                                    StateCalled)
               ELSE IF Kind(t.typ) = "func"
               THEN /\ PoolGrows
                    /\ Added.targetFunc = t
                    /\ Added.state = StateInitialized
               ELSE /\ pc' = "done"
                    /\ result' = Error("UnsupportedLoggerProvider", 0, TRUE)
                    /\ UNCHANGED <<funcs, provides, loggerInvoker>>]_vars

(***************************************************************************)
(* The states and the outputs of the nodes.                                *)
(***************************************************************************)
States == {StateInitialized, StateLinked, StateCalled}

(***************************************************************************)
(* C22  Monotonic state: the state of every node is Initialized, Linked or *)
(* Called, a node without a function (a supply, a logger or log sink given *)
(* to WithLogger) is Called in every state, and no step of Revolve, in the *)
(* bootstrap or the main resolve, removes a node or moves the state of a   *)
(* node backwards: what is Linked never becomes Initialized again, what is *)
(* Called stays Called.                                                    *)
(***************************************************************************)
MonotonicState ==
    /\ [](\A f \in Nodes :
            /\ funcs[f].state \in States
            /\ ~HasFunc(f) => funcs[f].state = StateCalled)
    /\ [][\A f \in Nodes :
              /\ f \in DOMAIN funcs'
              /\ funcs'[f].state >= funcs[f].state]_vars

\* Revolve returned nil after a provider, Called by then, was entered for a
\* second consumer, next to a supply
MonotonicStateWitness ==
    /\ pc = "done" /\ result = Nil /\ ~dryRun
    /\ \E P \in Nodes, c1, c2 \in InvokeNodes :
          /\ c1 < c2
          /\ P \in ProvidersOf(c1) /\ P \in ProvidersOf(c2)
          /\ HasFunc(P) /\ funcs[P].state = StateCalled
          /\ funcs[c1].state = StateCalled /\ funcs[c2].state = StateCalled
          /\ Cardinality(Starts(P)) = 1

(***************************************************************************)
(* C23  Output stability: no step changes anything of a node that is       *)
(* Called, neither its outputs nor its links nor its state: entering it    *)
(* again calls nothing, and a worker left on cancellation that returns     *)
(* later changes no node at all.                                           *)
(***************************************************************************)
OutputStability ==
    /\ [][\A f \in Nodes :
              funcs[f].state = StateCalled =>
                  f \in DOMAIN funcs' /\ funcs'[f] = funcs[f]]_vars
    /\ [][\A o \in orphans : OrphanReturns(o) => UNCHANGED funcs]_vars

\* a provider stored its value and is Called; the next provider was left
\* running on cancellation, returned later, and its outputs are still empty
OutputStabilityWitness ==
    /\ pc = "done" /\ cancelled
    /\ \E o \in orphans :
          /\ o.status = "blocked" /\ Ends(o.fn) # {}
          /\ funcs[o.fn].state = StateCalled
          /\ funcs[o.fn].outputs # <<>>
          /\ \A k \in 1..Len(funcs[o.fn].outputs) :
                funcs[o.fn].outputs[k].value = ZeroValue
          /\ \E Q \in ProvidersOf(o.fn) :
                /\ HasFunc(Q) /\ funcs[Q].state = StateCalled
                /\ funcs[Q].outputs[1].value = Value(Q, 1, funcs[Q].outputs[1].typ)

(***************************************************************************)
(* Revolve on pools that try the linker: a provide whose own output may be *)
(* bound to its input under the structural predicate, and an invoke that   *)
(* asks for an error.  The context is never done.                          *)
(***************************************************************************)
LinkSupplyValues == {Val("Foo"), Val("FooBar")}

LinkProvideTargets == {
    Func(<<"IFoo">>, <<"Foo">>),
    Func(<<>>, <<"Foo", "error">>),
    Func(<<"Foo">>, <<"Bar">>) }

LinkInvokeTargets == {
    Func(<<"Foo">>, <<"error">>),
    Func(<<"error">>, <<>>),
    Func(<<"IFoo">>, <<>>),
    Func(<<"Foo", "Bar">>, <<>>) }

LinkLoggerTargets == {Val("LogFunc"), Func(<<"Foo">>, <<"Logger">>)}

NextLinks ==
    \/ \E v \in LinkSupplyValues : supplyOption(v)
    \/ \E t \in LinkProvideTargets : provideOption(t)
    \/ \E t \in LinkInvokeTargets : invokeOption(t)
    \/ \E t \in LinkLoggerTargets : WithLogger(t)
    \/ WithDuckTyping
    \/ WithDryRun
    \/ EndOptions
    \/ EndLogger
    \/ Return
    \/ Enter
    \/ CallStart
    \/ WorkerReturns
    \/ CallReturn

SpecLinks == InitDry /\ [][NextLinks]_vars

\* input `in` of node f is bound as linkInput under pred binds it
WellBound(f, in, pred) ==
    /\ in.provider # 0 /\ in.provider # f
    /\ \E k \in 1..Len(provides) : provides[k] = in.provider
    /\ in.outputIndex \in 1..Len(funcs[in.provider].outputs)
    /\ ~isErrorType(funcs[in.provider].outputs[in.outputIndex].typ)
    /\ Assignable(pred, funcs[in.provider].outputs[in.outputIndex].typ, in.typ)

\* the nodes the logger bootstrap links
Bootstrapped == Closure({loggerInvoker} \ {0})

(***************************************************************************)
(* C24  Link well-formedness: for every pool the options can build, every  *)
(* node and predicate, a LinkProvides that succeeds sets the state Linked  *)
(* and binds every input to a provider of the pool other than the node, at *)
(* an index inside the outputs of the provider, of a type that is not      *)
(* error and is assignable to the type of the input under the predicate.   *)
(* Every node that is Linked or Called is bound so, under the structural   *)
(* predicate when the logger bootstrap linked it and under the predicate   *)
(* of Revolve otherwise; collecting its arguments does not fail with       *)
(* InternalError, and Revolve never returns InternalError.                 *)
(***************************************************************************)
LinkWellFormed ==
    /\ pc = "options" =>
          \A f \in Nodes, pred \in Preds :
              LET l == LinkProvides(f, provides, pred) IN
              l.err = Nil =>
                  /\ l.state = StateLinked
                  /\ \A k \in 1..Len(l.inputs) : WellBound(f, l.inputs[k], pred)
    /\ \A f \in Nodes :
          funcs[f].state >= StateLinked =>
              /\ \A k \in 1..Len(funcs[f].inputs) :
                    WellBound(f, funcs[f].inputs[k],
                              IF f \in Bootstrapped THEN "duck" ELSE assignable)
              /\ collectArgsValues(f).err.kind # "InternalError"
    /\ result.kind # "InternalError"

\* under the structural predicate a provide whose own output is assignable
\* to its input was linked to a supply, and Revolve ran its consumer
LinkWellFormedWitness ==
    /\ pc = "done" /\ result = Nil /\ assignable = "duck"
    /\ \E f \in Nodes :
          /\ HasFunc(f) /\ funcs[f].state = StateCalled
          /\ funcs[f].inputs # <<>> /\ funcs[f].outputs # <<>>
          /\ Assignable("duck", funcs[f].outputs[1].typ, funcs[f].inputs[1].typ)
          /\ ~HasFunc(funcs[f].inputs[1].provider)
          /\ \E c \in InvokeNodes : f \in ProvidersOf(c) /\ Ends(c) # {}

(***************************************************************************)
(* The resolver of revolver.go.  Revolve applies the options and polls the *)
(* context; resolve links every invoke and every provide, ranks the nodes  *)
(* in layers below the invokes, and calls the ranked nodes, deepest layer  *)
(* first.                                                                  *)
(***************************************************************************)
\* the layer at which setLayers gives up: 1000 in revolver.go, here the size
\* of the largest graph the options build
MaxLayer == MaxNodes

\* rv.printf = log.Printf
WithStdLogger ==
    /\ pc = "options"
    /\ logger' = Value(0, 0, "log.Printf")
    /\ UNCHANGED <<funcs, rvVars, runVars, orphans, ctxVars, trace, first>>

\* linkProvides binds fn.inProvides, input by input
linkProvides(fn, pool, pred) == LinkFrom(fn, 1, funcs[fn].inputs, <<>>, pool, pred)

\* fn.inProvides
inProvides(fn) == [k \in 1..Len(funcs[fn].inputs) |-> funcs[fn].inputs[k].provider]

\* what setLayers has done: the layers set, the error returned, and (history)
\* the nodes it entered, in order
Layered(layer, err, entered) == [layer |-> layer, err |-> err, entered |-> entered]

\* setLayers(fns, layer), on the layers acc set so far
RECURSIVE setLayers(_, _, _)
setLayers(fns, layer, acc) ==
    IF layer > MaxLayer
    THEN Layered(acc.layer, Error("CyclicProvideDetected", 0, FALSE), acc.entered)
    ELSE IF fns = <<>> THEN acc
    ELSE LET fn == Head(fns)
             here == Layered([acc.layer EXCEPT ![fn] = IF @ < layer THEN layer ELSE @],
                             Nil, Append(acc.entered, fn))
             below == setLayers(inProvides(fn), layer + 1, here)
         IN  IF below.err # Nil THEN below
             ELSE setLayers(Tail(fns), layer, below)

\* setLayers(rv.invokes, 1), every fn.layer being 0 before
Layers == setLayers(invokes, 1, Layered([f \in Nodes |-> 0], Nil, <<>>))

\* the orders sort.Slice may leave funcs in: layers descending
Sorted(fns, layer) ==
    {q \in [1..Len(fns) -> Nodes] :
        /\ \A i \in 1..Len(fns) : \E j \in 1..Len(fns) : q[j] = fns[i]
        /\ \A i, j \in 1..Len(fns) : i < j => layer[q[i]] >= layer[q[j]]}

\* Revolve after the options: the poll of the context, then resolve up to
\* its first loop
resolve ==
    /\ pc = "options"
    /\ IF cancelled
       THEN Abort(ctxErr)
       ELSE /\ pc' = "linking"
            /\ roots' = invokes \o provides
            /\ UNCHANGED <<stack, worker, sent, result>>
    /\ UNCHANGED <<funcs, rvVars, logger, orphans, ctxVars, trace, first>>

\* one turn of the loop that links every function
resolveLink ==
    /\ pc = "linking" /\ roots # <<>>
    /\ IF cancelled
       THEN /\ Abort(ctxErr)
            /\ UNCHANGED funcs
       ELSE LET l == linkProvides(Head(roots), provides, assignable) IN
            /\ funcs' = [funcs EXCEPT ![Head(roots)].inputs = l.inputs]
            /\ IF l.err # Nil
               THEN Abort(l.err)
               ELSE /\ roots' = Tail(roots)
                    /\ UNCHANGED <<pc, stack, worker, sent, result>>
    /\ UNCHANGED <<rvVars, logger, orphans, ctxVars, trace, first>>

\* all functions are linked: dry-run returns, else the layers are set and
\* the functions sorted
resolveLayers ==
    /\ pc = "linking" /\ roots = <<>>
    /\ IF dryRun
       THEN Abort(Nil)
       ELSE IF Layers.err # Nil
       THEN Abort(Layers.err)
       ELSE /\ pc' = "calling"
            /\ roots' \in Sorted(invokes \o provides, Layers.layer)
            /\ UNCHANGED <<stack, worker, sent, result>>
    /\ UNCHANGED <<funcs, rvVars, logger, orphans, ctxVars, trace, first>>

\* one turn of the loop that calls the functions, up to fn.call
resolveCall ==
    /\ pc = "calling" /\ roots # <<>> /\ stack = <<>> /\ worker = 0
    /\ IF Layers.layer[Head(roots)] = 0
       THEN /\ roots' = Tail(roots)
            /\ UNCHANGED <<pc, stack, worker, sent, result>>
       ELSE IF cancelled
       THEN Abort(ctxErr)
       ELSE /\ roots' = Tail(roots)
            /\ stack' = <<Frame(Head(roots), <<>>)>>
            /\ UNCHANGED <<pc, worker, sent, result>>
    /\ UNCHANGED <<funcs, rvVars, logger, orphans, ctxVars, trace, first>>

\* every function is called: resolve returns nil
resolveReturn ==
    /\ pc = "calling" /\ roots = <<>> /\ stack = <<>>
    /\ Abort(Nil)
    /\ UNCHANGED <<funcs, rvVars, logger, orphans, ctxVars, trace, first>>

NextEager ==
    \/ \E v \in SupplyValues : supplyOption(v)
    \/ \E t \in ProvideTargets : provideOption(t)
    \/ \E t \in InvokeTargets : invokeOption(t)
    \/ WithStdLogger
    \/ WithDuckTyping
    \/ WithDryRun
    \/ resolve
    \/ resolveLink
    \/ resolveLayers
    \/ resolveCall
    \/ resolveReturn
    \/ CallStart
    \/ WorkerReturns
    \/ CallReturn
    \/ CallCancelled
    \/ \E o \in orphans : OrphanReturns(o)
    \/ Cancel

SpecEager == Init /\ [][NextEager]_vars

(***************************************************************************)
(* C25  Demand-driven linking: only nodes reachable from an invoke or from *)
(* the logger-installing invoke have an input bound or are Linked; a       *)
(* provide with a function that is not reachable stays Initialized; and    *)
(* when Revolve fails with CannotProvideValue or MultipleProvide, a        *)
(* reachable node has an input that cannot be bound to exactly one output. *)
(***************************************************************************)
DemandDrivenLinking ==
    LET D == Demanded IN
    /\ \A f \in Nodes :
          (ProvidersOf(f) # {} \/ (HasFunc(f) /\ funcs[f].state = StateLinked))
              => f \in D
    /\ \A f \in Nodes :
          HasFunc(f) /\ f \notin D => funcs[f].state = StateInitialized
    /\ pc = "done" /\ result.kind \in {"CannotProvideValue", "MultipleProvide"} =>
          \E f \in D, pred \in Preds : Unbindable(f, pred) # {}

(***************************************************************************)
(* Revolve of revolver.go under the scheduling of the code: the resolver   *)
(* runs on while it has a step to take, a started function returns, and    *)
(* the select of Call takes a case that is ready.                          *)
(***************************************************************************)
FairEager ==
    /\ SpecEager
    /\ WF_vars(resolve \/ resolveLink \/ resolveLayers \/ resolveCall
                  \/ resolveReturn \/ CallStart)
    /\ WF_vars(WorkerReturns)
    /\ WF_vars(CallReturn \/ CallCancelled)

\* Revolve has returned
Returned == pc = "done"

\* setLayers has run: the functions are being called, or it gave up
Ranked ==
    \/ pc = "calling"
    \/ pc = "done" /\ result = Error("CyclicProvideDetected", 0, FALSE)

\* no node occurs twice in seq
OnceEach(seq) == \A i, j \in 1..Len(seq) : i # j => seq[i] # seq[j]

(***************************************************************************)
(* C26  Termination: Revolve eventually returns, for every graph the       *)
(* options build, cycles included, when every started function returns or  *)
(* the context is cancelled; and the traversal below the invokes, which    *)
(* starts when every node is linked, enters no node a second time.         *)
(***************************************************************************)
Termination ==
    /\ <>Returned
    /\ [](Ranked => OnceEach(Layers.entered))

(***************************************************************************)
(* C27  Cycle detection is sound: when Revolve returns the error           *)
(* CyclicProvideDetected, some node reachable from an invoke or from the   *)
(* logger-installing invoke lies on a cycle of links; a graph without a    *)
(* reachable cycle, however deep, never ends in this error.                *)
(***************************************************************************)
CycleDetectionSound ==
    pc = "done" /\ result.kind = "CyclicProvideDetected" => CycleReachable

(***************************************************************************)
(* Revolve over functions with results of every shape: a constructor with  *)
(* an error behind its value, an invoke that returns an error, an invoke   *)
(* that returns a value, and an invoke that returns nothing.               *)
(***************************************************************************)
StoreSupplyValues == {Val("Foo")}

StoreProvideTargets == {
    Func(<<>>, <<"Foo", "error">>),
    Func(<<"Foo">>, <<"Bar">>) }

StoreInvokeTargets == {
    Func(<<>>, <<>>),
    Func(<<"Foo">>, <<"error">>),
    Func(<<>>, <<"Foo">>),
    Func(<<"Bar">>, <<"error", "Foo">>) }

NextStore ==
    \/ \E v \in StoreSupplyValues : supplyOption(v)
    \/ \E t \in StoreProvideTargets : provideOption(t)
    \/ \E t \in StoreInvokeTargets : invokeOption(t)
    \/ WithDryRun
    \/ EndOptions
    \/ Return
    \/ Enter
    \/ CallStart
    \/ WorkerReturns
    \/ CallReturn
    \/ CallCancelled
    \/ \E o \in orphans : OrphanReturns(o)
    \/ Cancel

SpecStore == Init /\ [][NextStore]_vars

\* the positions of the results of f that are not of type error
ValuePositions(f) ==
    {i \in 1..Len(funcs[f].targetFunc.res) : ~isErrorType(funcs[f].targetFunc.res[i])}

(***************************************************************************)
(* C28  Result storage stays in range: Call never faults with an index out *)
(* of range when it stores the results of a function, and every position   *)
(* of a result that is not of type error, of a node whose results Call has *)
(* stored, is an index of the outputs of the node; an invoke whose         *)
(* function returns a value is called without fault.                       *)
(***************************************************************************)
StorageInRange ==
    /\ result # IndexPanic
    /\ \A f \in Nodes :
          HasFunc(f) /\ Ends(f) # {} /\ pc = "done" /\ result = Nil /\ ~cancelled =>
              \A i \in ValuePositions(f) : i \in 1..Len(funcs[f].outputs)

(***************************************************************************)
(* Revolve under the scheduling of the code: the resolver runs on while it *)
(* has a step to take, every started function returns, also that of a      *)
(* worker Call has left, and the select of Call takes a case that is       *)
(* ready.                                                                  *)
(***************************************************************************)
FairStore ==
    /\ SpecStore
    /\ WF_vars(EndOptions \/ Return \/ Enter \/ CallStart)
    /\ WF_vars(WorkerReturns)
    /\ WF_vars(\E o \in orphans : OrphanReturns(o))
    /\ WF_vars(CallReturn \/ CallCancelled)

\* every name a node can have
NodeNames == 1..LoggerInvokerNode

\* the worker of f is at its send, result <- values: its function has returned
Sending(f) ==
    \/ worker = f /\ sent # <<>>
    \/ [fn |-> f, status |-> "blocked"] \in orphans

\* the function of f runs in a worker
Running(f) ==
    \/ worker = f /\ sent = <<>>
    \/ [fn |-> f, status |-> "running"] \in orphans

(***************************************************************************)
(* C29  No stuck worker: a worker whose function has returned eventually   *)
(* terminates, that is, gets past the send of its values, also when Call   *)
(* has returned on cancellation without receiving them.                    *)
(***************************************************************************)
NoStuckWorker ==
    \A f \in NodeNames : Sending(f) ~> (~Sending(f) /\ ~Running(f))
====
